---- MODULE Spec2Model ----
(***************************************************************************)
(* Versioned accumulation (data_collection_and_versioning/cronjob.py) and  *)
(* watermark consumption (models/linear_regression/train.py).              *)
(*                                                                         *)
(* A DataFrame is the sequence of its rows; a row is the natural number    *)
(* that identifies the raw record it was made from.  A CSV blob holds the  *)
(* header and the rows, so a blob that exists always parses, and a blob    *)
(* with no rows parses to a frame whose .empty is True.                    *)
(***************************************************************************)
EXTENDS Integers, Sequences, FiniteSets, TLC

\* ---------------------------------------------------------------- bounds
MaxRows == 6        \* raw rows the two sources ever deliver
MaxDrop == 3        \* rows in one data.csv delivered to BUCKET_1
MaxFaults == 1      \* store / tracking calls that raise, over a behaviour
MaxQuery == 1       \* distinct non-price field values of a /store record
MaxRuns == 3        \* MLflow runs of the experiment
MaxAcc == 1         \* levels of the accuracy metric, 0..MaxAcc
MaxBatch == 2       \* raw records in a frame given to preprocess_data
MaxSplit == 50      \* rows of a frame given to the split on its own
MaxTag == 120       \* version numbers written to the tag on its own
MaxStoreQuery == 2  \* distinct non-price field values sent to the workers of dbapp
MaxStoreRows == 4   \* /store requests sent to the workers of dbapp

\* ------------------------------------------------------------- constants
SmallBatch == 2     \* cronjob.py:36 a value of the environment's BATCH_SIZE
ScenarioBatch == 10 \* cronjob.py:36 another value of the environment's BATCH_SIZE
SplitTenths == 8    \* cronjob.py:37 TRAIN_TEST_SPLIT = 0.8
HASH_FEATURES == 10 \* cronjob.py:46 columns hashed from one categorical column
ExpectedColumns == 53   \* train.py:371 the width train.main expects

VARIABLES
  bucket1,      \* BUCKET_1: blob name -> rows
  bucket2,      \* BUCKET_2: blob name -> rows
  collection2,  \* MongoDB COLLECTION_2: sequence of documents
  nextRow,      \* identity of the next raw record a source delivers
  faults,       \* calls that raised so far
  ppc,          \* producer: position in cronjob.main
  p,            \* producer: locals of cronjob.main
  pstart,       \* producer: BUCKET_2 as it was when the run started
  pfault,       \* producer: a store call of this run raised
  published,    \* version numbers under which runs uploaded, in run order
  runs,         \* MLflow: the runs of the experiment, oldest first
  cpc,          \* consumer: position in train.main
  c,            \* consumer: locals of train.main
  chist,        \* consumer: what the earlier runs of train.main read and did
  pub,          \* producer runs at step 8 of cronjob.main, by run: position, locals
  BATCH_SIZE,   \* cronjob.py: int(os.getenv("BATCH_SIZE", "1000")), read at import
  untargeted,   \* the raw records that have no price field
  tr,           \* preprocess_data on its own: the frame given, the frame returned
  sp,           \* step 6 of cronjob.main on its own: the frame and fraction given,
                \* the two partitions
  req,          \* dbapp: the /store requests being served, by worker
  wm            \* the watermark on its own: the version written, the tag, the
                \* value get_best_model_and_version returns

mainvars == <<bucket1, collection2, ppc, p, pstart, pfault>>
pvars == <<bucket1, collection2, ppc, p, pstart, pfault, published>>
cvars == <<runs, cpc, c, chist>>
envvars == <<BATCH_SIZE, untargeted, tr, sp, req, wm>>
vars == <<bucket1, bucket2, collection2, nextRow, faults, ppc, p, pstart,
          pfault, published, runs, cpc, c, chist, pub, BATCH_SIZE, untargeted,
          tr, sp, req, wm>>

\* --------------------------------------------------------------- helpers
Max(a, b) == IF a >= b THEN a ELSE b

RECURSIVE SetMax(_)
SetMax(S) ==
  IF S = {} THEN 0
  ELSE LET x == CHOOSE y \in S : TRUE IN Max(x, SetMax(S \ {x}))

Range(s) == {s[i] : i \in DOMAIN s}

\* Optional[pd.DataFrame]
None == [some |-> FALSE, rows |-> <<>>]
Some(r) == [some |-> TRUE, rows |-> r]

\* Blob names.
Blob(dir, ver, file) == [dir |-> dir, ver |-> ver, file |-> file]
DataCsv == Blob("", 0, "data.csv")
InstreamTrain == Blob("instream", 0, "train.csv")
InstreamValid == Blob("instream", 0, "valid.csv")
VersionedTrain(n) == Blob("versioned", n, "train.csv")
VersionedValid(n) == Blob("versioned", n, "valid.csv")

EmptyBucket == [b \in {} |-> <<>>]

\* The bucket with `name` set to `rows`.
Put(bucket, name, rows) ==
  [b \in DOMAIN bucket \cup {name} |-> IF b = name THEN rows ELSE bucket[b]]

\* The bucket without `name`.
Remove(bucket, name) == [b \in DOMAIN bucket \ {name} |-> bucket[b]]

\* Whether the next call to a store or to the tracking server raises: an input
\* of every step that makes such a call.
Raises == IF faults < MaxFaults THEN BOOLEAN ELSE {FALSE}
\* The same for the read of a blob: a read that raises and the read of a blob
\* that is not there both give None, so only the former is counted.
ReadRaises(bucket, name) == IF name \in DOMAIN bucket THEN Raises ELSE {FALSE}
Count(raised) == IF raised THEN faults + 1 ELSE faults

\* ------------------------------------------------- cronjob.py: store calls
\* read_csv_from_gcs: None when the blob does not exist or the call raises.
read_csv_from_gcs(bucket, name, raised) ==
  IF raised \/ name \notin DOMAIN bucket THEN None ELSE Some(bucket[name])

\* delete_blob_from_gcs: the bucket after the call (unchanged when it raises).
delete_blob_from_gcs(bucket, name, raised) ==
  IF raised THEN bucket ELSE Remove(bucket, name)

\* upload_csv_to_gcs: the bucket after the call (unchanged when it raises).
upload_csv_to_gcs(bucket, name, df, raised) ==
  IF raised THEN bucket ELSE Put(bucket, name, df)

\* The version numbers matched by versioned/v(\d+)/ in the listed names.
ListedVersions(bucket) ==
  {b.ver : b \in {x \in DOMAIN bucket : x.dir = "versioned"}}

\* get_latest_version: max of the listed versions, 0 when there is none or
\* when the listing raises.
get_latest_version(bucket, raised) ==
  IF raised THEN 0 ELSE SetMax(ListedVersions(bucket))

\* ------------------------------------------------- cronjob.py: the split
\* RandomState(42).permutation(n), the order df.sample(frac=1,
\* random_state=42) gives n rows (0-based positions of the input).
Perm42(n) ==
  CASE n = 0 -> <<>>
    [] n = 1 -> <<0>>
    [] n = 2 -> <<1, 0>>
    [] n = 3 -> <<0, 1, 2>>
    [] n = 4 -> <<1, 3, 0, 2>>
    [] n = 5 -> <<1, 4, 2, 0, 3>>
    [] n = 6 -> <<0, 1, 5, 2, 4, 3>>
    [] n = 7 -> <<0, 1, 5, 2, 4, 3, 6>>
    [] n = 8 -> <<1, 5, 0, 7, 2, 4, 3, 6>>
    [] n = 9 -> <<7, 1, 5, 0, 8, 2, 4, 3, 6>>
    [] n = 10 -> <<8, 1, 5, 0, 7, 2, 9, 4, 3, 6>>
    [] n = 11 -> <<5, 0, 9, 10, 2, 1, 8, 4, 7, 3, 6>>
    [] n = 12 -> <<10, 9, 0, 8, 5, 2, 1, 11, 4, 7, 3, 6>>
    [] n = 13 -> <<11, 9, 0, 8, 5, 2, 1, 12, 4, 7, 10, 3, 6>>
    [] n = 14 -> <<9, 11, 0, 12, 5, 8, 2, 1, 13, 4, 7, 10, 3, 6>>
    [] n = 15 -> <<9, 11, 0, 13, 5, 8, 2, 1, 14, 4, 7, 10, 12, 3, 6>>
    [] n = 16 -> <<0, 1, 5, 14, 13, 11, 8, 9, 2, 15, 4, 7, 10, 12, 3, 6>>
    [] n = 17 -> <<0, 1, 5, 15, 11, 14, 8, 13, 2, 9, 16, 4, 7, 10, 12, 3, 6>>
    [] n = 18 -> <<0, 1, 8, 5, 3, 13, 16, 15, 11, 2, 9, 17, 4, 12, 7, 10,
            14, 6>>
    [] n = 19 -> <<0, 5, 11, 1, 8, 16, 3, 13, 15, 17, 2, 9, 18, 4, 12, 7,
            10, 14, 6>>
    [] n = 20 -> <<0, 17, 15, 1, 8, 5, 11, 3, 18, 16, 13, 2, 9, 19, 4, 12,
            7, 10, 14, 6>>
    [] n = 21 -> <<0, 17, 15, 1, 8, 5, 11, 3, 18, 16, 13, 2, 9, 20, 4, 12,
            7, 10, 14, 19, 6>>
    [] n = 22 -> <<0, 13, 8, 1, 15, 5, 20, 11, 3, 4, 17, 12, 18, 16, 2, 9,
            21, 7, 10, 14, 19, 6>>
    [] n = 23 -> <<15, 9, 0, 8, 17, 12, 1, 13, 5, 2, 11, 20, 3, 4, 18, 16,
            21, 22, 7, 10, 14, 19, 6>>
    [] n = 24 -> <<8, 16, 0, 18, 11, 9, 13, 1, 21, 5, 2, 12, 15, 3, 4, 22,
            17, 20, 23, 7, 10, 14, 19, 6>>
    [] n = 25 -> <<8, 16, 0, 23, 11, 9, 13, 1, 22, 5, 2, 12, 15, 3, 4, 20,
            17, 21, 18, 24, 7, 10, 14, 19, 6>>
    [] n = 26 -> <<8, 16, 0, 24, 11, 9, 13, 1, 23, 5, 2, 12, 15, 3, 4, 21,
            17, 22, 18, 25, 20, 7, 10, 14, 19, 6>>
    [] n = 27 -> <<8, 13, 9, 21, 0, 11, 16, 17, 12, 24, 1, 4, 5, 2, 15, 22,
            3, 25, 23, 18, 26, 20, 7, 10, 14, 19, 6>>
    [] n = 28 -> <<9, 25, 8, 21, 0, 12, 17, 22, 11, 13, 15, 1, 4, 5, 2, 16,
            23, 3, 26, 24, 18, 27, 20, 7, 10, 14, 19, 6>>
    [] n = 29 -> <<27, 16, 12, 22, 8, 9, 21, 0, 26, 13, 15, 11, 17, 1, 4,
            5, 2, 24, 3, 23, 25, 18, 28, 20, 7, 10, 14, 19, 6>>
    [] n = 30 -> <<27, 15, 23, 17, 8, 9, 28, 24, 12, 0, 4, 16, 5, 13, 11,
            22, 1, 2, 25, 3, 21, 26, 18, 29, 20, 7, 10, 14, 19, 6>>
    [] n = 31 -> <<27, 15, 23, 17, 8, 9, 29, 24, 12, 0, 4, 16, 5, 13, 11,
            22, 1, 2, 25, 3, 21, 26, 18, 30, 20, 7, 10, 14, 28, 19, 6>>
    [] n = 32 -> <<29, 15, 24, 17, 8, 9, 30, 25, 12, 0, 4, 16, 5, 13, 11,
            23, 1, 2, 26, 3, 21, 27, 22, 18, 31, 20, 7, 10, 14, 28, 19, 6>>
    [] n = 33 -> <<31, 15, 26, 17, 8, 9, 19, 21, 12, 0, 4, 16, 5, 13, 11,
            24, 1, 2, 29, 3, 27, 23, 30, 22, 18, 25, 6, 20, 32, 7, 10, 14,
            28>>
    [] n = 34 -> <<15, 19, 27, 26, 8, 24, 21, 12, 32, 9, 0, 4, 16, 17, 5,
            13, 11, 1, 2, 30, 3, 29, 23, 31, 22, 18, 25, 6, 20, 33, 7, 10,
            14, 28>>
    [] n = 35 -> <<26, 13, 24, 21, 15, 29, 19, 12, 8, 16, 9, 33, 0, 4, 17,
            27, 5, 11, 1, 2, 32, 3, 30, 23, 31, 10, 22, 18, 25, 6, 20, 34,
            7, 14, 28>>
    [] n = 36 -> <<35, 13, 26, 30, 16, 31, 21, 12, 8, 17, 9, 34, 0, 4, 29,
            15, 19, 5, 11, 1, 24, 2, 33, 3, 32, 23, 27, 10, 22, 18, 25, 6,
            20, 7, 14, 28>>
    [] n = 37 -> <<17, 13, 4, 29, 35, 25, 6, 26, 24, 16, 8, 15, 12, 32, 9,
            19, 0, 31, 5, 11, 1, 27, 21, 2, 36, 34, 3, 33, 23, 30, 10, 22,
            18, 20, 7, 14, 28>>
    [] n = 38 -> <<33, 36, 4, 13, 30, 26, 6, 27, 24, 15, 17, 8, 16, 12, 19,
            9, 32, 0, 25, 5, 11, 1, 37, 21, 2, 29, 35, 3, 34, 23, 31, 10,
            22, 18, 20, 7, 14, 28>>
    [] n = 39 -> <<33, 36, 4, 13, 30, 26, 6, 27, 24, 15, 17, 8, 16, 12, 19,
            9, 32, 0, 25, 5, 11, 1, 37, 21, 2, 29, 35, 3, 34, 23, 31, 10,
            22, 18, 20, 7, 14, 28, 38>>
    [] n = 40 -> <<19, 16, 15, 26, 4, 12, 37, 27, 39, 6, 25, 9, 13, 31, 34,
            8, 17, 24, 0, 33, 5, 11, 1, 29, 21, 2, 30, 36, 3, 35, 23, 32,
            10, 22, 18, 20, 7, 14, 28, 38>>
    [] n = 41 -> <<24, 13, 8, 25, 4, 40, 19, 39, 29, 6, 26, 12, 17, 9, 15,
            32, 16, 35, 34, 0, 27, 5, 11, 1, 30, 21, 2, 31, 37, 3, 36, 23,
            33, 10, 22, 18, 20, 7, 14, 28, 38>>
    [] n = 42 -> <<25, 13, 8, 26, 4, 39, 19, 29, 30, 6, 27, 12, 17, 9, 15,
            33, 16, 36, 35, 0, 24, 5, 11, 40, 1, 31, 21, 2, 32, 41, 3, 37,
            23, 34, 10, 22, 18, 20, 7, 14, 28, 38>>
    [] n = 43 -> <<37, 24, 25, 36, 34, 39, 4, 12, 8, 3, 6, 27, 31, 19, 17,
            13, 40, 15, 9, 16, 30, 26, 0, 29, 41, 5, 11, 32, 1, 42, 21, 2,
            33, 23, 35, 10, 22, 18, 20, 7, 14, 28, 38>>
    [] n = 44 -> <<37, 24, 25, 36, 34, 40, 4, 12, 8, 3, 6, 27, 31, 19, 17,
            13, 41, 15, 9, 16, 30, 26, 0, 29, 42, 5, 11, 32, 1, 39, 21, 2,
            33, 23, 35, 10, 22, 18, 43, 20, 7, 14, 28, 38>>
    [] n = 45 -> <<39, 25, 26, 43, 35, 41, 4, 12, 8, 3, 6, 24, 32, 19, 17,
            13, 42, 15, 9, 16, 37, 31, 27, 0, 30, 29, 5, 11, 33, 1, 40, 21,
            2, 34, 23, 36, 10, 22, 18, 44, 20, 7, 14, 28, 38>>
    [] n = 46 -> <<39, 25, 26, 44, 35, 41, 4, 12, 8, 3, 6, 24, 32, 19, 17,
            13, 43, 15, 9, 16, 37, 31, 27, 0, 30, 29, 5, 11, 33, 1, 40, 21,
            2, 34, 23, 36, 10, 22, 18, 45, 20, 7, 42, 14, 28, 38>>
    [] n = 47 -> <<27, 39, 26, 43, 24, 36, 12, 19, 4, 25, 8, 3, 6, 40, 33,
            13, 17, 44, 15, 9, 16, 29, 32, 45, 0, 31, 30, 5, 11, 34, 1, 41,
            21, 2, 35, 23, 37, 10, 22, 18, 46, 20, 7, 42, 14, 28, 38>>
    [] n = 48 -> <<27, 40, 26, 43, 24, 37, 12, 19, 4, 25, 8, 3, 6, 39, 33,
            13, 17, 45, 15, 9, 16, 29, 32, 46, 0, 31, 30, 5, 11, 34, 1, 44,
            21, 2, 36, 35, 23, 41, 10, 22, 18, 47, 20, 7, 42, 14, 28, 38>>
    [] n = 49 -> <<13, 45, 47, 44, 17, 27, 26, 25, 31, 19, 12, 4, 34, 8, 3,
            6, 40, 41, 46, 15, 9, 16, 24, 33, 30, 0, 43, 32, 5, 29, 11, 36,
            1, 21, 2, 37, 35, 23, 39, 10, 22, 18, 48, 20, 7, 42, 14, 28,
            38>>
    [] n = 50 -> <<13, 39, 30, 45, 17, 48, 26, 25, 32, 19, 12, 4, 37, 8, 3,
            6, 41, 46, 47, 15, 9, 16, 24, 34, 31, 0, 44, 27, 33, 5, 29, 11,
            36, 1, 21, 2, 43, 35, 23, 40, 10, 22, 18, 49, 20, 7, 42, 14,
            28, 38>>
    [] n = 51 -> <<43, 40, 46, 12, 24, 31, 17, 32, 3, 30, 13, 8, 49, 6, 47,
            4, 36, 33, 19, 48, 15, 9, 16, 26, 44, 25, 11, 0, 45, 27, 34, 5,
            29, 37, 1, 21, 2, 39, 35, 23, 41, 10, 22, 18, 50, 20, 7, 42,
            14, 28, 38>>

\* An unshuffled split.
ShuffleNone(df) == df

Shuffle(df) == [i \in 1..Len(df) |-> df[Perm42(Len(df))[i] + 1]]

\* The rows (n, hundredths h) up to 100 rows for which the double product
\* n * TRAIN_TEST_SPLIT, with TRAIN_TEST_SPLIT = float("0.h"), is less than the
\* integer n*h/100: 50 * 0.58 is 28.999999999999996.
TruncatesBelow ==
  {<<100, 29>>, <<100, 57>>, <<50, 58>>, <<100, 58>>, <<90, 70>>}

\* int(n * TRAIN_TEST_SPLIT) for a fraction of h hundredths, in double
\* arithmetic.
int_times(n, h) ==
  IF <<n, h>> \in TruncatesBelow THEN (n * h) \div 100 - 1 ELSE (n * h) \div 100

\* A train size that is rounded to the nearest row.
TrainSizeRounded(n) == (n * SplitTenths + 5) \div 10

\* int(len(df) * TRAIN_TEST_SPLIT)
TrainSize(n) == (n * SplitTenths) \div 10

\* ------------------------------------------ cronjob.py: preprocess_data
\* A cell of a frame: a number, a string, or the missing value NaN.
Num(n) == [kind |-> "num", num |-> n, str |-> ""]
Str(s) == [kind |-> "str", num |-> 0, str |-> s]
NaN == [kind |-> "nan", num |-> 0, str |-> ""]

NUMERICAL_COLS ==
  <<"bedrooms", "bathrooms", "sqft_living", "sqft_lot", "floors", "waterfront",
    "view", "condition", "sqft_above", "sqft_basement", "yr_built",
    "yr_renovated">>
CATEGORICAL_COLS == <<"street", "city", "statezip", "country">>

\* pd.DataFrame(documents): a column for every field some document has, and
\* NaN where a document lacks the field.  A frame is its columns and its rows.
DataFrame(documents) ==
  LET columns == UNION {DOMAIN documents[i] : i \in DOMAIN documents}
  IN  [columns |-> columns,
       rows |-> [i \in DOMAIN documents |->
                  [col \in columns |->
                    IF col \in DOMAIN documents[i] THEN documents[i][col]
                    ELSE NaN]]]

\* pd.to_numeric(x, errors="coerce") followed by fillna(0).
to_numeric_fillna(x) == IF x.kind = "num" THEN x ELSE Num(0)

\* df[col].astype(str).fillna("unknown").  Up to pandas 2 astype(str) turns NaN
\* into the string "nan" and fillna finds nothing to fill; from pandas 3 on
\* astype(str) keeps NaN and fillna puts "unknown".  The repository pins
\* neither, so the installed pandas decides (keeps_na).
astype_str_fillna(x, keeps_na) ==
  CASE x.kind = "str" -> x.str
    [] x.kind = "nan" -> IF keeps_na THEN "unknown" ELSE "nan"

\* murmurhash3_32(s.encode("utf-8"), seed=0) as a signed 32-bit number, for the
\* strings of the records below (computed with the reference algorithm).
murmurhash3_32 ==
  [s \in {"unknown", "nan", "Seattle", "USA", "WA 98103", "1 Main St"} |->
     CASE s = "unknown" -> 575491131
       [] s = "nan" -> 605416826
       [] s = "Seattle" -> 0 - 1828250166
       [] s = "USA" -> 0 - 695411399
       [] s = "WA 98103" -> 0 - 632874545
       [] s = "1 Main St" -> 513824660]

Abs(n) == IF n < 0 THEN 0 - n ELSE n

\* FeatureHasher(n_features=HASH_FEATURES, input_type="string").transform([[s]]):
\* one row, with +1 or -1 (the sign of the hash) in slot abs(hash) % n_features.
FeatureHasher(s) ==
  LET h == murmurhash3_32[s]
  IN  [slot \in 1..HASH_FEATURES |->
         IF slot - 1 = Abs(h) % HASH_FEATURES
         THEN Num(IF h >= 0 THEN 1 ELSE 0 - 1)
         ELSE Num(0)]

\* A column of the returned frame: a numerical column or price (hash = -1), or
\* f"{col}_hash_{i}".
Column(col) == [col |-> col, hash |-> 0 - 1]
HashColumn(col, i) == [col |-> col, hash |-> i]

RECURSIVE Flatten(_)
Flatten(seqs) ==
  IF seqs = <<>> THEN <<>> ELSE Head(seqs) \o Flatten(Tail(seqs))

\* The categorical columns the frame has, in the order of CATEGORICAL_COLS.
RECURSIVE Present(_, _)
Present(cols, columns) ==
  IF cols = <<>> THEN <<>>
  ELSE (IF Head(cols) \in columns THEN <<Head(cols)>> ELSE <<>>)
         \o Present(Tail(cols), columns)

\* What preprocess_data does: the frame it returns, or the exception it raises.
Raised(exception) == [raised |-> exception, columns |-> <<>>, rows |-> <<>>]
preprocess_data(df, keeps_na) ==
  IF "price" \notin df.columns THEN Raised("ValueError")
  ELSE IF \E i \in DOMAIN NUMERICAL_COLS : NUMERICAL_COLS[i] \notin df.columns
  THEN Raised("KeyError")
  ELSE
    LET categorical == Present(CATEGORICAL_COLS, df.columns)
    IN  [raised |-> "",
         columns |->
           [i \in DOMAIN NUMERICAL_COLS |-> Column(NUMERICAL_COLS[i])]
             \o Flatten([k \in DOMAIN categorical |->
                          [i \in 1..HASH_FEATURES |->
                            HashColumn(categorical[k], i - 1)]])
             \o <<Column("price")>>,
         rows |->
           [r \in DOMAIN df.rows |->
             [i \in DOMAIN NUMERICAL_COLS |->
                to_numeric_fillna(df.rows[r][NUMERICAL_COLS[i]])]
               \o Flatten([k \in DOMAIN categorical |->
                            FeatureHasher(astype_str_fillna(
                              df.rows[r][categorical[k]], keeps_na))])
               \o <<df.rows[r]["price"]>>]]

\* ------------------------- mlapp/app.py: preprocess_data_for_prediction
\* str(value) if pd.notna(value) else "unknown"
str_or_unknown(x) ==
  CASE x.kind = "str" -> x.str
    [] x.kind = "nan" -> "unknown"

\* The 52 features of one record: df is the one-row frame of the record with
\* price set to 0; a numerical column the record lacks gives 0, a categorical
\* column it lacks gives HASH_FEATURES zeros.
preprocess_data_for_prediction(data) ==
  LET df_data == [col \in DOMAIN data \cup {"price"} |->
                    IF col = "price" THEN Num(0) ELSE data[col]]
      df == DataFrame(<<df_data>>)
  IN  [i \in DOMAIN NUMERICAL_COLS |->
         IF NUMERICAL_COLS[i] \in df.columns
         THEN to_numeric_fillna(df.rows[1][NUMERICAL_COLS[i]])
         ELSE Num(0)]
        \o Flatten([k \in DOMAIN CATEGORICAL_COLS |->
                     IF CATEGORICAL_COLS[k] \in df.columns
                     THEN FeatureHasher(str_or_unknown(
                            df.rows[1][CATEGORICAL_COLS[k]]))
                     ELSE [i \in 1..HASH_FEATURES |-> Num(0)]])

\* preprocess_data applied to the frame of some raw records, and applied to it
\* again; preprocess_data_for_prediction applied to the first of the records.
NoTransform == [documents |-> <<>>, df |-> DataFrame(<<>>), keeps_na |-> FALSE,
                calls |-> 0, out |-> Raised(""), again |-> Raised(""),
                predicted |-> FALSE, features |-> <<>>]

Predict ==
  /\ ~tr.predicted
  /\ tr.documents # <<>>
  /\ tr' = [tr EXCEPT
              !.features = preprocess_data_for_prediction(tr.documents[1]),
              !.predicted = TRUE]
  /\ UNCHANGED <<bucket1, bucket2, collection2, nextRow, faults, ppc, p, pstart,
                 pfault, published, runs, cpc, c, chist, pub, BATCH_SIZE,
                 untargeted, sp, req, wm>>

Transform ==
  /\ tr.calls = 0
  /\ tr' = [tr EXCEPT !.out = preprocess_data(tr.df, tr.keeps_na), !.calls = 1]
  /\ UNCHANGED <<bucket1, bucket2, collection2, nextRow, faults, ppc, p, pstart,
                 pfault, published, runs, cpc, c, chist, pub, BATCH_SIZE,
                 untargeted, sp, req, wm>>

TransformAgain ==
  /\ tr.calls = 1
  /\ tr' = [tr EXCEPT !.again = preprocess_data(tr.df, tr.keeps_na), !.calls = 2]
  /\ UNCHANGED <<bucket1, bucket2, collection2, nextRow, faults, ppc, p, pstart,
                 pfault, published, runs, cpc, c, chist, pub, BATCH_SIZE,
                 untargeted, sp, req, wm>>

\* ------------------------------------------- cronjob.py: step 6 on its own
NoSplit == [df |-> <<>>, TRAIN_TEST_SPLIT |-> SplitTenths * 10, done |-> FALSE,
            new_train_df |-> <<>>, new_valid_df |-> <<>>]

\* Step 6: train_size, shuffled_df, new_train_df, new_valid_df.
SplitRows ==
  /\ ~sp.done
  /\ LET train_size == int_times(Len(sp.df), sp.TRAIN_TEST_SPLIT)
         shuffled_df == Shuffle(sp.df)
     IN  sp' = [sp EXCEPT
                  !.done = TRUE,
                  !.new_train_df = SubSeq(shuffled_df, 1, train_size),
                  !.new_valid_df = SubSeq(shuffled_df, train_size + 1,
                                          Len(shuffled_df))]
  /\ UNCHANGED <<bucket1, bucket2, collection2, nextRow, faults, ppc, p, pstart,
                 pfault, published, runs, cpc, c, chist, pub, BATCH_SIZE,
                 untargeted, tr, req, wm>>

\* ------------------------------------------------ the two upstream sources
\* A data.csv appears in BUCKET_1 (written by a party outside the repository).
\* An upload during a run either precedes the run's read of data.csv or is not
\* seen by the run, so uploads are taken between runs.
DropDataCsv ==
  /\ ppc = "idle"
  /\ DataCsv \notin DOMAIN bucket1
  /\ \E k \in 1..MaxDrop :
       /\ nextRow + k - 1 <= MaxRows
       /\ bucket1' = Put(bucket1, DataCsv, [i \in 1..k |-> nextRow + i - 1])
       /\ nextRow' = nextRow + k
  /\ UNCHANGED <<bucket2, collection2, faults, ppc, p, pstart, pfault, published,
                 cvars, pub, envvars>>

\* A data.csv without a price column appears in BUCKET_1.
DropDataCsvNoPrice ==
  /\ ppc = "idle"
  /\ DataCsv \notin DOMAIN bucket1
  /\ \E k \in 1..MaxDrop :
       /\ nextRow + k - 1 <= MaxRows
       /\ bucket1' = Put(bucket1, DataCsv, [i \in 1..k |-> nextRow + i - 1])
       /\ untargeted' = untargeted \cup (nextRow .. (nextRow + k - 1))
       /\ nextRow' = nextRow + k
  /\ UNCHANGED <<bucket2, collection2, faults, ppc, p, pstart, pfault, published,
                 cvars, pub, BATCH_SIZE, tr, sp, req, wm>>

\* The sources of the end-to-end example: 12 rows, and when a run has taken
\* them 5 rows; the rows of a delivery come as a data.csv or as as many
\* distinct records posted to dbapp.
ScenarioDeliveries == <<12, 5>>
DeliverScenario ==
  /\ ppc = "idle"
  /\ DataCsv \notin DOMAIN bucket1
  /\ collection2 = <<>>
  /\ \E d \in DOMAIN ScenarioDeliveries, csv \in BOOLEAN :
       LET k == ScenarioDeliveries[d]
       IN  /\ nextRow = IF d = 1 THEN 1 ELSE 1 + ScenarioDeliveries[1]
           /\ IF csv
              THEN /\ bucket1' = Put(bucket1, DataCsv,
                                     [i \in 1..k |-> nextRow + i - 1])
                   /\ UNCHANGED collection2
              ELSE /\ collection2' = [i \in 1..k |->
                                        [row |-> nextRow + i - 1,
                                         query |-> nextRow + i - 1]]
                   /\ UNCHANGED bucket1
           /\ nextRow' = nextRow + k
  /\ UNCHANGED <<bucket2, faults, ppc, p, pstart, pfault, published,
                 cvars, pub, envvars>>

\* dbapp /store with table collection_2: the record is inserted unless a
\* document with the same non-price fields is there.  A request commutes with
\* every step of cronjob.main but find() and delete_many(), so requests are
\* taken between runs and between those two calls.
store_data ==
  /\ ppc \in {"idle", "mongo_delete"}
  /\ nextRow <= MaxRows
  /\ \E q \in 1..MaxQuery :
       LET record_data == [row |-> nextRow, query |-> q]
           existing == \E d \in Range(collection2) : d.query = q
       IN  /\ collection2' = IF existing THEN collection2
                              ELSE Append(collection2, record_data)
           /\ nextRow' = IF existing THEN nextRow ELSE nextRow + 1
  /\ UNCHANGED <<bucket1, bucket2, faults, ppc, p, pstart, pfault, published,
                 cvars, pub, envvars>>

\* dbapp /store with table collection_2 served by several workers: find_one
\* and insert_one are two calls on the database, and the calls of the workers
\* interleave.
Workers == {1, 2}
NoRequest == [pc |-> "idle", record_data |-> [row |-> 0, query |-> 0]]
NoRequests == [w \in Workers |-> NoRequest]

\* query_data = record_data without price; existing = find_one(query_data);
\* the request returns 200 when a document matches.
StoreFindOne(w) ==
  /\ req[w].pc = "idle"
  /\ nextRow <= MaxStoreRows
  /\ \E q \in 1..MaxStoreQuery :
       LET record_data == [row |-> nextRow, query |-> q]
           existing == \E d \in Range(collection2) : d.query = q
       IN  req' = [req EXCEPT ![w] = IF existing THEN NoRequest
                                     ELSE [pc |-> "insert_one",
                                           record_data |-> record_data]]
  /\ nextRow' = nextRow + 1
  /\ UNCHANGED <<bucket1, bucket2, collection2, faults, ppc, p, pstart, pfault,
                 published, cvars, pub, BATCH_SIZE, untargeted, tr, sp, wm>>

\* result = collection.insert_one(record_data); the request returns 201.
StoreInsertOne(w) ==
  /\ req[w].pc = "insert_one"
  /\ collection2' = Append(collection2, req[w].record_data)
  /\ req' = [req EXCEPT ![w] = NoRequest]
  /\ UNCHANGED <<bucket1, bucket2, nextRow, faults, ppc, p, pstart, pfault,
                 published, cvars, pub, BATCH_SIZE, untargeted, tr, sp, wm>>

\* pd.DataFrame(documents).drop("_id"): one row per document, in order.
DocsFrame(documents) == [i \in 1..Len(documents) |-> documents[i].row]

\* ------------------------------------------------------- cronjob.py: main
Locals == [train1 |-> None, valid1 |-> None, csv1 |-> None, documents |-> <<>>,
           csv2 |-> <<>>, final_train |-> <<>>, final_valid |-> <<>>,
           new_version |-> 0, wrote |-> FALSE, exit |-> "running",
           blob_raised |-> FALSE, mongo_raised |-> FALSE]

\* Step 1: train1_df = read_csv_from_gcs(BUCKET_2, "instream/train.csv")
ReadInstreamTrain ==
  /\ ppc = "idle"
  /\ \E raised \in ReadRaises(bucket2, InstreamTrain) :
       /\ p' = [p EXCEPT
                  !.train1 = read_csv_from_gcs(bucket2, InstreamTrain, raised)]
       /\ pfault' = raised
       /\ faults' = Count(raised)
  /\ pstart' = bucket2
  /\ ppc' = "read_valid"
  /\ UNCHANGED <<bucket1, bucket2, collection2, nextRow, published,
                 cvars, pub, envvars>>

\* Step 1: valid1_df = read_csv_from_gcs(BUCKET_2, "instream/valid.csv")
ReadInstreamValid ==
  /\ ppc = "read_valid"
  /\ \E raised \in ReadRaises(bucket2, InstreamValid) :
       /\ p' = [p EXCEPT
                  !.valid1 = read_csv_from_gcs(bucket2, InstreamValid, raised)]
       /\ pfault' = (pfault \/ raised)
       /\ faults' = Count(raised)
  /\ ppc' = "delete_train"
  /\ UNCHANGED <<bucket1, bucket2, collection2, nextRow, pstart, published,
                 cvars, pub, envvars>>

\* Step 1: if train1_df is not None: delete_blob_from_gcs(instream/train.csv)
DeleteInstreamTrain ==
  /\ ppc = "delete_train"
  /\ IF p.train1.some
     THEN \E raised \in Raises :
            /\ bucket2' = delete_blob_from_gcs(bucket2, InstreamTrain, raised)
            /\ pfault' = (pfault \/ raised)
            /\ faults' = Count(raised)
     ELSE UNCHANGED <<bucket2, pfault, faults>>
  /\ ppc' = "delete_valid"
  /\ UNCHANGED <<bucket1, collection2, nextRow, p, pstart, published,
                 cvars, pub, envvars>>

\* Step 1: if valid1_df is not None: delete_blob_from_gcs(instream/valid.csv)
DeleteInstreamValid ==
  /\ ppc = "delete_valid"
  /\ IF p.valid1.some
     THEN \E raised \in Raises :
            /\ bucket2' = delete_blob_from_gcs(bucket2, InstreamValid, raised)
            /\ pfault' = (pfault \/ raised)
            /\ faults' = Count(raised)
     ELSE UNCHANGED <<bucket2, pfault, faults>>
  /\ ppc' = "read_data"
  /\ UNCHANGED <<bucket1, collection2, nextRow, p, pstart, published,
                 cvars, pub, envvars>>

\* Step 2: csv1_df = read_csv_from_gcs(BUCKET_1, "data.csv")
ReadDataCsv ==
  /\ ppc = "read_data"
  /\ \E raised \in ReadRaises(bucket1, DataCsv) :
       /\ p' = [p EXCEPT !.csv1 = read_csv_from_gcs(bucket1, DataCsv, raised),
                         !.blob_raised = raised]
       /\ pfault' = (pfault \/ raised)
       /\ faults' = Count(raised)
  /\ ppc' = "delete_data"
  /\ UNCHANGED <<bucket1, bucket2, collection2, nextRow, pstart, published,
                 cvars, pub, envvars>>

\* DeleteDataCsv without the test of csv1_df: data.csv is deleted also when it
\* could not be read.
DeleteDataCsvUnread ==
  /\ ppc = "delete_data"
  /\ \E raised \in Raises :
       /\ bucket1' = delete_blob_from_gcs(bucket1, DataCsv, raised)
       /\ pfault' = (pfault \/ raised)
       /\ faults' = Count(raised)
  /\ ppc' = "mongo_find"
  /\ UNCHANGED <<bucket2, collection2, nextRow, p, pstart, published,
                 cvars, pub, envvars>>

\* Step 2: if csv1_df is not None: delete_blob_from_gcs(BUCKET_1, "data.csv")
DeleteDataCsv ==
  /\ ppc = "delete_data"
  /\ IF p.csv1.some
     THEN \E raised \in Raises :
            /\ bucket1' = delete_blob_from_gcs(bucket1, DataCsv, raised)
            /\ pfault' = (pfault \/ raised)
            /\ faults' = Count(raised)
     ELSE UNCHANGED <<bucket1, pfault, faults>>
  /\ ppc' = "mongo_find"
  /\ UNCHANGED <<bucket2, collection2, nextRow, p, pstart, published,
                 cvars, pub, envvars>>

\* read_mongodb_collection: documents = list(collection.find()); an empty
\* frame is returned when there is no document or when the call raises.
MongoFind ==
  /\ ppc = "mongo_find"
  /\ \E raised \in (IF collection2 = <<>> THEN {FALSE} ELSE Raises) :
       /\ p' = [p EXCEPT !.documents = IF raised THEN <<>> ELSE collection2,
                         !.mongo_raised = raised]
       /\ ppc' = IF raised \/ collection2 = <<>> THEN "merge" ELSE "mongo_delete"
       /\ pfault' = (pfault \/ raised)
       /\ faults' = Count(raised)
  /\ UNCHANGED <<bucket1, bucket2, collection2, nextRow, pstart, published,
                 cvars, pub, envvars>>

\* read_mongodb_collection: collection.delete_many({}); the frame of the
\* documents read is returned, an empty frame when the call raises.
MongoDelete ==
  /\ ppc = "mongo_delete"
  /\ \E raised \in Raises :
       /\ collection2' = IF raised THEN collection2 ELSE <<>>
       /\ p' = [p EXCEPT !.csv2 = IF raised THEN <<>> ELSE DocsFrame(p.documents),
                         !.documents = <<>>,
                         !.mongo_raised = raised]
       /\ pfault' = (pfault \/ raised)
       /\ faults' = Count(raised)
  /\ ppc' = "merge"
  /\ UNCHANGED <<bucket1, bucket2, nextRow, pstart, published,
                 cvars, pub, envvars>>

\* A comparison of all the rows of the run, train and valid, with BATCH_SIZE.
CrossesThresholdAllRows(final_train_df, final_valid_df) ==
  Len(final_train_df) + Len(final_valid_df) >= BATCH_SIZE

\* A comparison that lets a buffer of exactly BATCH_SIZE train rows wait.
CrossesThresholdStrict(final_train_df, final_valid_df) ==
  Len(final_train_df) > BATCH_SIZE

\* Step 8: if len(final_train_df) >= BATCH_SIZE
CrossesThreshold(final_train_df, final_valid_df) ==
  Len(final_train_df) >= BATCH_SIZE

\* A merge that puts the rows of this run before the rows of the buffer.
concatNewFirst(df1, df2) == df2 \o df1

\* Step 7: pd.concat([train_df1, new_train_df], ignore_index=True)
concat(df1, df2) == df1 \o df2

\* Steps 4 to 8: merge the two sources (return when both are empty),
\* preprocess_data (main ends with its ValueError when no row of the merged
\* frame has a price, so that the frame has no price column), split
\* the shuffled rows, append them to the buffer read in step 1, and compare
\* the train row count with BATCH_SIZE.
MergeAndSplit ==
  /\ ppc = "merge"
  /\ LET merged_df == p.csv1.rows \o p.csv2
         train_size == TrainSize(Len(merged_df))
         shuffled_df == Shuffle(merged_df)
         new_train_df == SubSeq(shuffled_df, 1, train_size)
         new_valid_df == SubSeq(shuffled_df, train_size + 1, Len(shuffled_df))
         final_train_df == concat(p.train1.rows, new_train_df)
         final_valid_df == concat(p.valid1.rows, new_valid_df)
     IN  IF merged_df = <<>>
         THEN /\ p' = [p EXCEPT !.exit = "no_data"]
              /\ ppc' = "done"
         ELSE IF Range(merged_df) \subseteq untargeted
         THEN /\ p' = [p EXCEPT !.exit = "missing_target"]
              /\ ppc' = "done"
         ELSE /\ p' = [p EXCEPT !.final_train = final_train_df,
                                 !.final_valid = final_valid_df]
              /\ ppc' = IF CrossesThreshold(final_train_df, final_valid_df)
                        THEN "list_versions" ELSE "upload_instream_train"
  /\ UNCHANGED <<bucket1, bucket2, collection2, nextRow, faults, pstart,
                 pfault, published, cvars, pub, envvars>>

\* A publisher that leaves a number out.
NewVersionSkips(latest_version) == latest_version + 2

\* new_version = latest_version + 1
NewVersion(latest_version) == latest_version + 1

\* Step 8: latest_version = get_latest_version(BUCKET_2)
ListVersions ==
  /\ ppc = "list_versions"
  /\ \E raised \in Raises :
       /\ p' = [p EXCEPT
                  !.new_version = NewVersion(get_latest_version(bucket2, raised))]
       /\ pfault' = (pfault \/ raised)
       /\ faults' = Count(raised)
  /\ ppc' = "upload_version_train"
  /\ UNCHANGED <<bucket1, bucket2, collection2, nextRow, pstart, published,
                 cvars, pub, envvars>>

\* Step 8: upload_csv_to_gcs(versioned/v{new_version}/train.csv, final_train_df)
UploadVersionTrain ==
  /\ ppc = "upload_version_train"
  /\ \E raised \in Raises :
       /\ bucket2' = upload_csv_to_gcs(bucket2, VersionedTrain(p.new_version),
                                       p.final_train, raised)
       /\ published' = IF raised THEN published
                        ELSE Append(published, p.new_version)
       /\ p' = [p EXCEPT !.wrote = ~raised]
       /\ pfault' = (pfault \/ raised)
       /\ faults' = Count(raised)
  /\ ppc' = "upload_version_valid"
  /\ UNCHANGED <<bucket1, collection2, nextRow, pstart,
                 cvars, pub, envvars>>

\* Step 8: upload_csv_to_gcs(versioned/v{new_version}/valid.csv, final_valid_df)
UploadVersionValid ==
  /\ ppc = "upload_version_valid"
  /\ \E raised \in Raises :
       /\ bucket2' = upload_csv_to_gcs(bucket2, VersionedValid(p.new_version),
                                       p.final_valid, raised)
       /\ published' = IF raised \/ p.wrote THEN published
                        ELSE Append(published, p.new_version)
       /\ p' = [p EXCEPT !.wrote = p.wrote \/ ~raised, !.exit = "versioned"]
       /\ pfault' = (pfault \/ raised)
       /\ faults' = Count(raised)
  /\ ppc' = "done"
  /\ UNCHANGED <<bucket1, collection2, nextRow, pstart,
                 cvars, pub, envvars>>

\* Step 9: upload_csv_to_gcs(BUCKET_2, "instream/train.csv", final_train_df)
UploadInstreamTrain ==
  /\ ppc = "upload_instream_train"
  /\ \E raised \in Raises :
       /\ bucket2' = upload_csv_to_gcs(bucket2, InstreamTrain, p.final_train, raised)
       /\ pfault' = (pfault \/ raised)
       /\ faults' = Count(raised)
  /\ ppc' = "upload_instream_valid"
  /\ UNCHANGED <<bucket1, collection2, nextRow, p, pstart, published,
                 cvars, pub, envvars>>

\* Step 9: upload_csv_to_gcs(BUCKET_2, "instream/valid.csv", final_valid_df)
UploadInstreamValid ==
  /\ ppc = "upload_instream_valid"
  /\ \E raised \in Raises :
       /\ bucket2' = upload_csv_to_gcs(bucket2, InstreamValid, p.final_valid, raised)
       /\ pfault' = (pfault \/ raised)
       /\ faults' = Count(raised)
  /\ p' = [p EXCEPT !.exit = "instream"]
  /\ ppc' = "done"
  /\ UNCHANGED <<bucket1, collection2, nextRow, pstart, published,
                 cvars, pub, envvars>>

\* main returns; nothing of the run is kept in memory.
ProducerReturn ==
  /\ ppc = "done"
  /\ ppc' = "idle"
  /\ p' = Locals
  /\ pstart' = EmptyBucket
  /\ pfault' = FALSE
  /\ UNCHANGED <<bucket1, bucket2, collection2, nextRow, faults, published,
                 cvars, pub, envvars>>

Producer ==
  \/ ReadInstreamTrain \/ ReadInstreamValid
  \/ DeleteInstreamTrain \/ DeleteInstreamValid
  \/ ReadDataCsv \/ DeleteDataCsv
  \/ MongoFind \/ MongoDelete
  \/ MergeAndSplit
  \/ ListVersions \/ UploadVersionTrain \/ UploadVersionValid
  \/ UploadInstreamTrain \/ UploadInstreamValid
  \/ ProducerReturn


\* ------------------------------------------------- train.py: the watermark
Digit == <<"0", "1", "2", "3", "4", "5", "6", "7", "8", "9">>

\* str(n) for n >= 0, one character per element.
RECURSIVE Decimal(_)
Decimal(n) ==
  IF n < 10 THEN <<Digit[n + 1]>>
  ELSE Decimal(n \div 10) \o <<Digit[(n % 10) + 1]>>

\* f"v{latest_version}"
FormatTag(latest_version) == <<"v">> \o Decimal(latest_version)

IsDigit(ch) == \E d \in 1..10 : Digit[d] = ch
DigitValue(ch) == (CHOOSE d \in 1..10 : Digit[d] = ch) - 1

\* int() of the digits of s from position i on, up to the first non-digit.
RECURSIVE DigitsFrom(_, _, _)
DigitsFrom(s, i, acc) ==
  IF i > Len(s) \/ ~IsDigit(s[i]) THEN acc
  ELSE DigitsFrom(s, i + 1, acc * 10 + DigitValue(s[i]))

\* A parse that takes one digit after the v.
ParseTagOneDigit(tag) ==
  IF Len(tag) >= 2 /\ tag[1] = "v" /\ IsDigit(tag[2]) THEN DigitValue(tag[2])
  ELSE 0

\* re.search(r'v(\d+)', tag): int(group(1)) of the first match, else 0.
ParseTag(tag) ==
  LET starts == {i \in 1..(Len(tag) - 1) : tag[i] = "v" /\ IsDigit(tag[i + 1])}
  IN  IF starts = {} THEN 0
      ELSE LET i == CHOOSE j \in starts : \A k \in starts : j <= k
           IN  DigitsFrom(tag, i + 1, 0)

NoTag == <<>>
NoMetric == 0 - 1

\* run_data.data.tags.get('trained_till_version', 'v0')
TagOf(run) == IF run.tag = NoTag THEN <<"v", "0">> ELSE run.tag

\* mlflow.search_runs(order_by=["metrics.accuracy DESC"], max_results=1): the
\* index of the run with the highest accuracy; runs without the metric come
\* last, and among equals the most recent comes first.  0 when there is none.
BestRun(rs) ==
  IF rs = <<>> THEN 0
  ELSE CHOOSE i \in DOMAIN rs :
         \A j \in DOMAIN rs :
           \/ rs[i].acc > rs[j].acc
           \/ (rs[i].acc = rs[j].acc /\ i >= j)

\* get_best_model_and_version: (model, trained_till_version, best_run_id), with
\* a run named by its index in `runs` and None by 0.  (None, 0, None) when no
\* run exists and when any call raises; load_model raises when the best run
\* holds no model artifact.
NoBest == [model |-> 0, trained_till_version |-> 0, best_run_id |-> 0]
get_best_model_and_version(rs, raised) ==
  LET best == BestRun(rs)
  IN  IF raised \/ best = 0 THEN NoBest
      ELSE IF ~rs[best].model THEN NoBest
      ELSE [model |-> best,
            trained_till_version |-> ParseTag(TagOf(rs[best])),
            best_run_id |-> best]

\* The watermark on its own: an experiment in which a run that trained through
\* latest_version sets its tag (or, when set_tag raises, has none) and logs
\* its model, read by get_best_model_and_version before and after.
NoWatermark == [latest_version |-> 0, rs |-> <<>>, calls |-> 0, read |-> NoBest]

TagRun ==
  /\ wm.rs = <<>>
  /\ \E raised \in BOOLEAN :
       wm' = [wm EXCEPT
                !.rs = <<[acc |-> 0,
                          tag |-> IF raised THEN NoTag
                                  ELSE FormatTag(wm.latest_version),
                          model |-> TRUE,
                          from |-> 1, to |-> wm.latest_version]>>,
                !.calls = 0,
                !.read = NoBest]
  /\ UNCHANGED <<bucket1, bucket2, collection2, nextRow, faults, ppc, p, pstart,
                 pfault, published, runs, cpc, c, chist, pub, BATCH_SIZE,
                 untargeted, tr, sp, req>>

ReadWatermark ==
  /\ wm.calls = 0
  /\ wm' = [wm EXCEPT !.read = get_best_model_and_version(wm.rs, FALSE),
                      !.calls = 1]
  /\ UNCHANGED <<bucket1, bucket2, collection2, nextRow, faults, ppc, p, pstart,
                 pfault, published, runs, cpc, c, chist, pub, BATCH_SIZE,
                 untargeted, tr, sp, req>>

\* get_latest_version_from_gcs: as get_latest_version of cronjob.py.
get_latest_version_from_gcs(bucket, raised) ==
  IF raised THEN 0 ELSE SetMax(ListedVersions(bucket))

\* start_version = trained_till_version + 1
StartVersion(trained_till_version) == trained_till_version + 1

\* -------------------------------------------------------- train.py: main
CLocals == [model |-> 0, trained_till_version |-> 0, previous_run_id |-> 0,
            latest_version |-> 0, start_version |-> 0, version |-> 0,
            train_df |-> <<>>, all_train_dfs |-> <<>>, all_valid_dfs |-> <<>>,
            loaded |-> {}, run |-> 0, accuracy |-> NoMetric,
            shape1 |-> 0, read_raised |-> FALSE, load_raised |-> FALSE,
            exit |-> "running"]

\* merged_train.shape[1].  preprocess_data of cronjob.py writes the 12 numerical
\* columns, HASH_FEATURES columns for every categorical column its input has,
\* and price: the full width, and the width of input without one of the four
\* categorical columns.  price is in every frame preprocess_data returns.
Widths == {ExpectedColumns, ExpectedColumns - HASH_FEATURES}

NoHistory == [ran |-> FALSE, W |-> 0, L |-> 0, exit |-> "none", hi |-> 0,
              model |-> 0]

\* Step 3: model, trained_till_version, previous_run_id =
\*         get_best_model_and_version(client, EXPERIMENT_NAME)
GetBestModel ==
  /\ cpc = "idle"
  /\ \E raised \in (IF runs = <<>> THEN {FALSE} ELSE Raises) :
       LET best == get_best_model_and_version(runs, raised)
       IN  /\ c' = [c EXCEPT !.model = best.model,
                             !.trained_till_version = best.trained_till_version,
                             !.previous_run_id = best.best_run_id,
                             !.read_raised = raised]
           /\ faults' = Count(raised)
  /\ cpc' = "list_versions"
  /\ UNCHANGED <<bucket2, nextRow, runs, chist, pvars, pub, envvars>>

\* Steps 4 and 5: latest_version = get_latest_version_from_gcs(BUCKET_2);
\* return when it is 0 and when start_version > latest_version.
GetLatestVersion ==
  /\ cpc = "list_versions"
  /\ \E raised \in (IF ListedVersions(bucket2) = {} THEN {FALSE} ELSE Raises) :
       LET latest_version == get_latest_version_from_gcs(bucket2, raised)
           start_version == StartVersion(c.trained_till_version)
       IN  /\ faults' = Count(raised)
           /\ IF latest_version = 0
              THEN /\ c' = [c EXCEPT !.latest_version = latest_version,
                                     !.exit = "no_versions"]
                   /\ cpc' = "done"
              ELSE IF start_version > latest_version
              THEN /\ c' = [c EXCEPT !.latest_version = latest_version,
                                     !.start_version = start_version,
                                     !.exit = "up_to_date"]
                   /\ cpc' = "done"
              ELSE /\ c' = [c EXCEPT !.latest_version = latest_version,
                                     !.start_version = start_version,
                                     !.version = start_version]
                   /\ cpc' = "load_train"
  /\ UNCHANGED <<bucket2, nextRow, runs, chist, pvars, pub, envvars>>

\* train.py read_csv_from_gcs raises when the blob is not there or the call
\* raises; load_versioned_data catches it and goes on with the next version.
CanRead(bucket, name, raised) == ~raised /\ name \in DOMAIN bucket

\* The position after the loop body for c.version.
AfterVersion(cl) ==
  IF cl.version + 1 > cl.latest_version THEN "merge" ELSE "load_train"

\* load_versioned_data: train_df = read_csv_from_gcs(versioned/v{version}/train.csv)
LoadTrain ==
  /\ cpc = "load_train"
  /\ \E raised \in ReadRaises(bucket2, VersionedTrain(c.version)) :
       /\ faults' = Count(raised)
       /\ IF CanRead(bucket2, VersionedTrain(c.version), raised)
          THEN /\ c' = [c EXCEPT !.train_df = bucket2[VersionedTrain(c.version)]]
               /\ cpc' = "load_valid"
          ELSE /\ c' = [c EXCEPT !.version = c.version + 1,
                                 !.load_raised = c.load_raised \/ raised]
               /\ cpc' = AfterVersion(c)
  /\ UNCHANGED <<bucket2, nextRow, runs, chist, pvars, pub, envvars>>

\* LoadValid with the train frame appended as soon as it was read, so that it
\* stays when the valid part cannot be read.
LoadValidKeepsTrain ==
  /\ cpc = "load_valid"
  /\ \E raised \in ReadRaises(bucket2, VersionedValid(c.version)) :
       /\ faults' = Count(raised)
       /\ IF CanRead(bucket2, VersionedValid(c.version), raised)
          THEN c' = [c EXCEPT
                      !.all_train_dfs = Append(c.all_train_dfs, c.train_df),
                      !.all_valid_dfs = Append(c.all_valid_dfs,
                                               bucket2[VersionedValid(c.version)]),
                      !.loaded = c.loaded \cup {c.version},
                      !.train_df = <<>>,
                      !.version = c.version + 1]
          ELSE c' = [c EXCEPT
                      !.all_train_dfs = Append(c.all_train_dfs, c.train_df),
                      !.train_df = <<>>, !.version = c.version + 1,
                      !.load_raised = c.load_raised \/ raised]
       /\ cpc' = AfterVersion(c)
  /\ UNCHANGED <<bucket2, nextRow, runs, chist, pvars, pub, envvars>>

\* load_versioned_data: valid_df = read_csv_from_gcs(versioned/v{version}/valid.csv),
\* then both frames are appended.
LoadValid ==
  /\ cpc = "load_valid"
  /\ \E raised \in ReadRaises(bucket2, VersionedValid(c.version)) :
       /\ faults' = Count(raised)
       /\ IF CanRead(bucket2, VersionedValid(c.version), raised)
          THEN c' = [c EXCEPT
                      !.all_train_dfs = Append(c.all_train_dfs, c.train_df),
                      !.all_valid_dfs = Append(c.all_valid_dfs,
                                               bucket2[VersionedValid(c.version)]),
                      !.loaded = c.loaded \cup {c.version},
                      !.train_df = <<>>,
                      !.version = c.version + 1]
          ELSE c' = [c EXCEPT !.train_df = <<>>, !.version = c.version + 1,
                              !.load_raised = c.load_raised \/ raised]
       /\ cpc' = AfterVersion(c)
  /\ UNCHANGED <<bucket2, nextRow, runs, chist, pvars, pub, envvars>>

\* MergeLoaded without the ValueError: an empty merge goes on to step 7.
MergeLoadedNoCheck ==
  /\ cpc = "merge"
  /\ cpc' = "validate"
  /\ UNCHANGED <<bucket2, nextRow, faults, runs, c, chist, pvars, pub, envvars>>

\* load_versioned_data: ValueError when nothing was loaded (main ends with it).
MergeLoaded ==
  /\ cpc = "merge"
  /\ IF c.all_train_dfs = <<>>
     THEN /\ c' = [c EXCEPT !.exit = "no_training_data"]
          /\ cpc' = "done"
     ELSE /\ c' = c
          /\ cpc' = "validate"
  /\ UNCHANGED <<bucket2, nextRow, faults, runs, chist, pvars, pub, envvars>>

\* A consumer that removes the train part of the last version it merged.
ValidateFormatDeleting ==
  /\ cpc = "validate"
  /\ \E shape1 \in Widths : c' = [c EXCEPT !.shape1 = shape1]
  /\ cpc' = "start_run"
  /\ bucket2' = Remove(bucket2, VersionedTrain(c.latest_version))
  /\ UNCHANGED <<nextRow, faults, runs, chist, pvars, pub, envvars>>

\* main, "Verify data format": the width of the merged frame is printed, with a
\* WARNING when it is not 53, and main goes on to step 7.  (The ValueError for
\* a missing price column cannot happen on what preprocess_data wrote.)
ValidateFormat ==
  /\ cpc = "validate"
  /\ \E shape1 \in Widths : c' = [c EXCEPT !.shape1 = shape1]
  /\ cpc' = "start_run"
  /\ UNCHANGED <<bucket2, nextRow, faults, runs, chist, pvars, pub, envvars>>

\* The run mlflow.start_run creates, with the parameters logged for it.
NewRun(cl) == [acc |-> NoMetric, tag |-> NoTag, model |-> FALSE,
               from |-> cl.start_version, to |-> cl.latest_version]

\* Step 7: with mlflow.start_run(...): log_param(...).  When start_run raises
\* there is no run; when a log_param raises the run stays as it is.
StartRun ==
  /\ cpc = "start_run"
  /\ Len(runs) < MaxRuns
  /\ \E raised \in Raises, created \in BOOLEAN :
       /\ raised \/ created
       /\ faults' = Count(raised)
       /\ runs' = IF created THEN Append(runs, NewRun(c)) ELSE runs
       /\ c' = [c EXCEPT !.run = IF created THEN Len(runs) + 1 ELSE 0,
                         !.exit = IF raised THEN "failed_start_run" ELSE "running"]
       /\ cpc' = IF raised THEN "done" ELSE "train"
  /\ UNCHANGED <<bucket2, nextRow, chist, pvars, pub, envvars>>

\* Steps 8 and 9: train_model and evaluate_model; the accuracy is whatever the
\* fit gives on the merged rows.
TrainAndEvaluate ==
  /\ cpc = "train"
  /\ \E raised \in Raises, accuracy \in 0..MaxAcc :
       /\ faults' = Count(raised)
       /\ c' = [c EXCEPT !.accuracy = IF raised THEN NoMetric ELSE accuracy,
                         !.exit = IF raised THEN "failed_train" ELSE "running"]
       /\ cpc' = IF raised THEN "done" ELSE "log_metrics"
  /\ UNCHANGED <<bucket2, nextRow, runs, chist, pvars, pub, envvars>>

\* mlflow.log_metric for each metric, 'accuracy' last.
LogMetrics ==
  /\ cpc = "log_metrics"
  /\ \E raised \in Raises :
       /\ faults' = Count(raised)
       /\ runs' = IF raised THEN runs
                  ELSE [runs EXCEPT ![c.run].acc = c.accuracy]
       /\ c' = [c EXCEPT !.exit = IF raised THEN "failed_log_metric" ELSE "running"]
       /\ cpc' = IF raised THEN "done" ELSE "set_tag"
  /\ UNCHANGED <<bucket2, nextRow, chist, pvars, pub, envvars>>

\* mlflow.set_tag("trained_till_version", f"v{latest_version}")
SetTag ==
  /\ cpc = "set_tag"
  /\ \E raised \in Raises :
       /\ faults' = Count(raised)
       /\ runs' = IF raised THEN runs
                  ELSE [runs EXCEPT ![c.run].tag = FormatTag(c.latest_version)]
       /\ c' = [c EXCEPT !.exit = IF raised THEN "failed_set_tag" ELSE "running"]
       /\ cpc' = IF raised THEN "done" ELSE "log_model"
  /\ UNCHANGED <<bucket2, nextRow, chist, pvars, pub, envvars>>

\* Step 10: mlflow.sklearn.log_model(trained_model, "model", ...)
LogModel ==
  /\ cpc = "log_model"
  /\ \E raised \in Raises :
       /\ faults' = Count(raised)
       /\ runs' = IF raised THEN runs ELSE [runs EXCEPT ![c.run].model = TRUE]
       /\ c' = [c EXCEPT !.exit = IF raised THEN "failed_log_model" ELSE "completed"]
  /\ cpc' = "done"
  /\ UNCHANGED <<bucket2, nextRow, chist, pvars, pub, envvars>>

\* main returns or ends with the exception; what the run read is remembered
\* for the statements about consecutive runs.
ConsumerReturn ==
  /\ cpc = "done"
  /\ cpc' = "idle"
  /\ chist' = [ran |-> TRUE, W |-> c.trained_till_version,
               L |-> c.latest_version, exit |-> c.exit,
               hi |-> Max(chist.hi, c.trained_till_version),
               model |-> c.model]
  /\ c' = CLocals
  /\ UNCHANGED <<bucket2, nextRow, faults, runs, pvars, pub, envvars>>

Consumer ==
  \/ GetBestModel \/ GetLatestVersion
  \/ LoadTrain \/ LoadValid \/ MergeLoaded \/ ValidateFormat
  \/ StartRun \/ TrainAndEvaluate \/ LogMetrics \/ SetTag \/ LogModel
  \/ ConsumerReturn

\* A producer run that crosses the threshold, as the consumer sees it: steps 8
\* of cronjob.main in one step, with BATCH_SIZE new train rows and one new
\* valid row; at most one of its three store calls raises.
PublishVersion ==
  /\ nextRow + BATCH_SIZE <= MaxRows
  /\ \E raised \in {"none"} \cup
                   (IF faults < MaxFaults THEN {"list", "train", "valid"} ELSE {}) :
       LET final_train_df == [i \in 1..BATCH_SIZE |-> nextRow + i - 1]
           final_valid_df == <<nextRow + BATCH_SIZE>>
           new_version == NewVersion(get_latest_version(bucket2, raised = "list"))
           with_train == upload_csv_to_gcs(bucket2, VersionedTrain(new_version),
                                           final_train_df, raised = "train")
       IN  /\ bucket2' = upload_csv_to_gcs(with_train, VersionedValid(new_version),
                                           final_valid_df, raised = "valid")
           /\ faults' = Count(raised # "none")
           /\ published' = Append(published, new_version)
  /\ nextRow' = nextRow + BATCH_SIZE + 1
  /\ UNCHANGED <<bucket1, collection2, ppc, p, pstart, pfault, cvars, pub, envvars>>

\* ------------------------------------- cronjob.py: main, step 8, run by run
\* Producer runs that crossed the threshold, each with its own locals, so that
\* the steps of two runs, and of a run and the consumer, can interleave.
Publishers == {1, 2}
PLocals == [pc |-> "idle", final_train |-> <<>>, final_valid |-> <<>>,
            new_version |-> 0, train_ok |-> FALSE, valid_ok |-> FALSE]

\* Steps 1 to 7 of a run that ends with BATCH_SIZE new train rows and one new
\* valid row: len(final_train_df) >= BATCH_SIZE is true.
PublisherCrosses(i) ==
  /\ pub[i].pc = "idle"
  /\ nextRow + BATCH_SIZE <= MaxRows
  /\ LET final_train_df == [k \in 1..BATCH_SIZE |-> nextRow + k - 1]
         final_valid_df == <<nextRow + BATCH_SIZE>>
     IN  /\ CrossesThreshold(final_train_df, final_valid_df)
         /\ pub' = [pub EXCEPT ![i] = [PLocals EXCEPT
                                        !.pc = "list_versions",
                                        !.final_train = final_train_df,
                                        !.final_valid = final_valid_df]]
  /\ nextRow' = nextRow + BATCH_SIZE + 1
  /\ UNCHANGED <<bucket2, faults, published, mainvars, cvars, envvars>>

\* latest_version = get_latest_version(BUCKET_2); new_version = latest_version + 1
PublisherListVersions(i) ==
  /\ pub[i].pc = "list_versions"
  /\ \E raised \in (IF ListedVersions(bucket2) = {} THEN {FALSE} ELSE Raises) :
       /\ pub' = [pub EXCEPT
                   ![i].new_version = NewVersion(get_latest_version(bucket2, raised)),
                   ![i].pc = "upload_train"]
       /\ faults' = Count(raised)
  /\ UNCHANGED <<bucket2, nextRow, published, mainvars, cvars, envvars>>

\* upload_csv_to_gcs(BUCKET_2, f"versioned/v{new_version}/train.csv", final_train_df)
PublisherUploadTrain(i) ==
  /\ pub[i].pc = "upload_train"
  /\ \E raised \in Raises :
       /\ bucket2' = upload_csv_to_gcs(bucket2, VersionedTrain(pub[i].new_version),
                                       pub[i].final_train, raised)
       /\ pub' = [pub EXCEPT ![i].train_ok = ~raised, ![i].pc = "upload_valid"]
       /\ published' = IF raised THEN published
                        ELSE Append(published, pub[i].new_version)
       /\ faults' = Count(raised)
  /\ UNCHANGED <<nextRow, mainvars, cvars, envvars>>

\* upload_csv_to_gcs(BUCKET_2, f"versioned/v{new_version}/valid.csv", final_valid_df)
PublisherUploadValid(i) ==
  /\ pub[i].pc = "upload_valid"
  /\ \E raised \in Raises :
       /\ bucket2' = upload_csv_to_gcs(bucket2, VersionedValid(pub[i].new_version),
                                       pub[i].final_valid, raised)
       /\ pub' = [pub EXCEPT ![i].valid_ok = ~raised, ![i].pc = "done"]
       /\ published' = IF raised \/ pub[i].train_ok THEN published
                        ELSE Append(published, pub[i].new_version)
       /\ faults' = Count(raised)
  /\ UNCHANGED <<nextRow, mainvars, cvars, envvars>>

\* "Daemon process completed successfully!" and main returns.
PublisherReturn(i) ==
  /\ pub[i].pc = "done"
  /\ pub' = [pub EXCEPT ![i] = PLocals]
  /\ UNCHANGED <<bucket2, nextRow, faults, published, mainvars, cvars, envvars>>

Publisher(i) ==
  \/ PublisherCrosses(i) \/ PublisherListVersions(i)
  \/ PublisherUploadTrain(i) \/ PublisherUploadValid(i)
  \/ PublisherReturn(i)

\* ---------------------------------------------------------- specification
InitStores ==
  /\ bucket1 = EmptyBucket
  /\ bucket2 = EmptyBucket
  /\ collection2 = <<>>
  /\ nextRow = 1
  /\ faults = 0
  /\ ppc = "idle"
  /\ p = Locals
  /\ pstart = EmptyBucket
  /\ pfault = FALSE
  /\ published = <<>>
  /\ runs = <<>>
  /\ cpc = "idle"
  /\ c = CLocals
  /\ chist = NoHistory
  /\ pub = [i \in Publishers |-> PLocals]
  /\ untargeted = {}
  /\ req = NoRequests

Init ==
  /\ InitStores
  /\ BATCH_SIZE = SmallBatch
  /\ tr = NoTransform
  /\ sp = NoSplit
  /\ wm = NoWatermark

\* The producer and its two sources.
Next == DropDataCsv \/ store_data \/ Producer

Spec == Init /\ [][Next]_vars

\* The consumer and the versions published for it.
NextConsumer == PublishVersion \/ Consumer

SpecConsumer == Init /\ [][NextConsumer]_vars

\* The producer and its two sources, when a data.csv may lack the price column.
NextNoPrice == DropDataCsvNoPrice \/ DropDataCsv \/ store_data \/ Producer

SpecNoPrice == Init /\ [][NextNoPrice]_vars

\* The producer with BATCH_SIZE=10 in its environment and the two deliveries of
\* the end-to-end example.
InitScenario ==
  /\ InitStores
  /\ BATCH_SIZE = ScenarioBatch
  /\ tr = NoTransform
  /\ sp = NoSplit
  /\ wm = NoWatermark

NextScenario == DeliverScenario \/ Producer

SpecScenario == InitScenario /\ [][NextScenario]_vars

\* One producer run at a time, step by step, and the consumer.
NextConcurrent == Publisher(1) \/ Consumer

SpecConcurrent == Init /\ [][NextConcurrent]_vars

\* Two producer runs whose steps interleave.
NextTwoPublishers == \E i \in Publishers : Publisher(i)

SpecTwoPublishers == Init /\ [][NextTwoPublishers]_vars

\* preprocess_data on frames of at most MaxBatch raw records.  A whole record
\* has every field; the others lack a field or hold a value that is missing or
\* is not a number.
Whole ==
  [col \in {NUMERICAL_COLS[i] : i \in DOMAIN NUMERICAL_COLS}
             \cup {"street", "city", "statezip", "country", "price"} |->
     CASE col = "street" -> Str("1 Main St")
       [] col = "city" -> Str("Seattle")
       [] col = "statezip" -> Str("WA 98103")
       [] col = "country" -> Str("USA")
       [] col = "price" -> Num(100)
       [] OTHER -> Num(1)]
Without(record, col) == [x \in DOMAIN record \ {col} |-> record[x]]
RawRecords ==
  {Whole,
   Without(Whole, "price"),
   Without(Whole, "bedrooms"),
   [Whole EXCEPT !["bedrooms"] = Str("abc")],
   Without(Whole, "city"),
   [Whole EXCEPT !["city"] = NaN],
   [Whole EXCEPT !["city"] = Str("unknown")]}
Batches ==
  UNION {[1..n -> RawRecords] : n \in 1..MaxBatch}

InitTransform ==
  /\ InitStores
  /\ BATCH_SIZE = SmallBatch
  /\ sp = NoSplit
  /\ wm = NoWatermark
  /\ \E documents \in Batches, keeps_na \in BOOLEAN :
       tr = [NoTransform EXCEPT !.documents = documents,
                                !.df = DataFrame(documents),
                                !.keeps_na = keeps_na]

NextTransform == Transform \/ TransformAgain \/ Predict

SpecTransform == InitTransform /\ [][NextTransform]_vars

\* Step 6 of cronjob.main on frames of at most MaxSplit rows, with
\* TRAIN_TEST_SPLIT set to 0.58, 0.7 or 0.8 in the environment.
SplitFractions == {58, 70, 80}
InitSplit ==
  /\ InitStores
  /\ BATCH_SIZE = SmallBatch
  /\ tr = NoTransform
  /\ wm = NoWatermark
  /\ \E n \in 0..MaxSplit, h \in SplitFractions :
       sp = [NoSplit EXCEPT !.df = [i \in 1..n |-> i], !.TRAIN_TEST_SPLIT = h]

NextSplit == SplitRows

SpecSplit == InitSplit /\ [][NextSplit]_vars

\* The tag written for the versions 1..MaxTag and read back.
InitWatermark ==
  /\ InitStores
  /\ BATCH_SIZE = SmallBatch
  /\ tr = NoTransform
  /\ sp = NoSplit
  /\ \E N \in 1..MaxTag : wm = [NoWatermark EXCEPT !.latest_version = N]

NextWatermark == TagRun \/ ReadWatermark

SpecWatermark == InitWatermark /\ [][NextWatermark]_vars

\* dbapp serving /store requests on collection_2 with two workers, while
\* producer runs drain the collection.
NextStore ==
  \/ \E w \in Workers : StoreFindOne(w) \/ StoreInsertOne(w)
  \/ Producer

SpecStore == Init /\ [][NextStore]_vars

\* ================================================================ claims
\* ------------------------------------------------------- the consumer
Committed(run) == run.tag # NoTag /\ run.model

\* The highest version a committed run of the experiment is tagged with.
CommittedWatermark ==
  SetMax({ParseTag(runs[i].tag) : i \in {j \in DOMAIN runs : Committed(runs[j])}})

\* The state right after get_best_model_and_version returned to main.
WatermarkRead == cpc = "list_versions"

\* C1: when the artifact log (log_model) of a run fails, the watermark the next
\* run reads is the watermark W the failed run had read.  Stated for the
\* behaviours in which log_model of the previous run is the only call that
\* raised.
C1_WatermarkKeptWhenLogModelFails ==
  (WatermarkRead /\ chist.exit = "failed_log_model" /\ faults = 1)
    => c.trained_till_version = chist.W

\* C2: after a run that completed, a second run that finds no newer version
\* reads the watermark L and is a no-op: it returns before loading anything.
\* Stated for the behaviours in which no call raised.
C2_SecondRunIsNoOp ==
  (faults = 0 /\ chist.exit = "completed"
     /\ cpc \notin {"idle", "list_versions"}
     /\ c.latest_version = chist.L)
    => (c.trained_till_version = chist.L /\ cpc = "done" /\ c.exit = "up_to_date")

\* C3: no version lies in the loaded range [from, to] of two committed runs.
\* Stated for the behaviours in which no call raised.
C3_VersionConsumedOnce ==
  faults = 0 =>
    \A i, j \in DOMAIN runs :
      (i < j /\ Committed(runs[i]) /\ Committed(runs[j]))
        => (runs[i].from .. runs[i].to) \cap (runs[j].from .. runs[j].to) = {}

\* C4: the watermark a run reads is the highest version tagged on a committed
\* run (0 when there is none), whatever the accuracies are.  Stated for the
\* behaviours in which no call raised.
C4_WatermarkIsHighestCommitted ==
  (faults = 0 /\ WatermarkRead) => c.trained_till_version = CommittedWatermark

\* C5: the watermark a run reads is never smaller than the watermark an earlier
\* run read, also after runs that failed.  Stated for the reads that do not
\* themselves raise.
C5_WatermarkNeverDecreases ==
  (WatermarkRead /\ ~c.read_raised) => c.trained_till_version >= chist.hi

\* ------------------------------------------------------- the producer
\* The rows of a blob, none when the blob is not there.
RowsOf(bucket, name) == IF name \in DOMAIN bucket THEN bucket[name] ELSE <<>>

\* The versioned/ part of a bucket.
Versioned(bucket) ==
  [b \in {x \in DOMAIN bucket : x.dir = "versioned"} |-> bucket[b]]

\* Every row kept in BUCKET_2, in the buffer or in a version.
StoredRows(bucket) == UNION {Range(bucket[b]) : b \in DOMAIN bucket}

IsPrefix(s, t) == Len(s) <= Len(t) /\ SubSeq(t, 1, Len(s)) = s

\* C6: the version numbers under which producer runs upload are strictly
\* increasing, so none is used twice, also when a listing or an upload fails.
C6_VersionsStrictlyIncrease ==
  \A i, j \in DOMAIN published : i < j => published[i] < published[j]

\* C7: a producer run leaves every versioned object that existed when it
\* started as it was; below the threshold the versioned namespace does not
\* change, and a publishing run changes only objects of its new version.
C7_PublishedVersionsImmutable ==
  ppc # "idle" =>
    /\ \A b \in DOMAIN Versioned(pstart) :
         b \in DOMAIN bucket2 /\ bucket2[b] = pstart[b]
    /\ (ppc = "done" /\ p.exit \in {"instream", "no_data"})
         => Versioned(bucket2) = Versioned(pstart)
    /\ \A b \in DOMAIN Versioned(bucket2) :
         b.ver # p.new_version => (b \in DOMAIN pstart /\ pstart[b] = bucket2[b])

C9_ThresholdTrigger ==
  (ppc = "done" /\ ~pfault /\ p.exit # "no_data") =>
    /\ IsPrefix(RowsOf(pstart, InstreamTrain), p.final_train)
    /\ IsPrefix(RowsOf(pstart, InstreamValid), p.final_valid)
    /\ IF Len(p.final_train) >= BATCH_SIZE
       THEN /\ p.new_version \notin ListedVersions(pstart)
            /\ ListedVersions(bucket2) = ListedVersions(pstart) \cup {p.new_version}
            /\ bucket2 = Put(Put(Versioned(pstart),
                                 VersionedTrain(p.new_version), p.final_train),
                             VersionedValid(p.new_version), p.final_valid)
       ELSE bucket2 = Put(Put(Versioned(pstart), InstreamTrain, p.final_train),
                          InstreamValid, p.final_valid)

\* A run found a buffer, reached exactly BATCH_SIZE train rows and published.
C9_Witness ==
  /\ ppc = "done" /\ ~pfault /\ p.exit = "versioned"
  /\ InstreamTrain \in DOMAIN pstart
  /\ pstart[InstreamTrain] # <<>>
  /\ Len(p.final_train) = BATCH_SIZE

\* A run ended below the threshold although it holds BATCH_SIZE valid rows.
C9_WitnessValidRowsDoNotCount ==
  /\ ppc = "done" /\ ~pfault /\ p.exit = "instream"
  /\ Len(p.final_valid) >= BATCH_SIZE

\* C10: when a run completes, every row that was in the instream buffer when
\* it started is in the instream buffer or in a published version.  Stated
\* for the runs whose store calls all succeeded.
C10_BufferRowsKept ==
  (ppc = "done" /\ ~pfault) =>
    (Range(RowsOf(pstart, InstreamTrain)) \cup Range(RowsOf(pstart, InstreamValid)))
      \subseteq StoredRows(bucket2)

\* ------------------------------------------- the consumer: range and load
\* The versions of S in increasing order.
RECURSIVE Ascending(_)
Ascending(S) ==
  IF S = {} THEN <<>>
  ELSE LET m == CHOOSE x \in S : \A y \in S : y <= x
       IN  Append(Ascending(S \ {m}), m)

\* The pending range of the run in progress, once it is determined.
RangeKnown == cpc \in {"load_train", "load_valid", "merge", "validate",
                       "start_run", "train", "log_metrics", "set_tag",
                       "log_model"}
PendingRange == c.start_version .. c.latest_version

\* Both parts of version v are in the store.
Complete(bucket, v) ==
  VersionedTrain(v) \in DOMAIN bucket /\ VersionedValid(v) \in DOMAIN bucket

\* No version number was written by two producer runs.
NeverRewritten ==
  \A i, j \in DOMAIN published : i # j => published[i] # published[j]

\* The loop of load_versioned_data is over for the run in progress.
LoadOver == cpc \in {"merge", "validate", "start_run", "train", "log_metrics",
                     "set_tag", "log_model"}

\* The run in progress has set its trained_till_version tag.
TagSet == c.run # 0 /\ runs[c.run].tag # NoTag

\* C11: with W the watermark read and L the latest version, W >= L makes the
\* run a no-op (nothing loaded, no MLflow run, and the next run reads the same
\* watermark); otherwise the run works on W+1..L and after it completed the
\* next run reads the watermark L.
C11_NoOpWhenUpToDate ==
  /\ (cpc \notin {"idle", "list_versions"} /\ c.trained_till_version >= c.latest_version)
       => /\ cpc = "done"
          /\ c.exit \in {"no_versions", "up_to_date"}
          /\ c.loaded = {} /\ c.all_train_dfs = <<>> /\ c.run = 0
  /\ (faults = 0 /\ WatermarkRead /\ chist.exit \in {"no_versions", "up_to_date"})
       => c.trained_till_version = chist.W
C11_RangeIsPending ==
  /\ RangeKnown =>
       /\ c.trained_till_version < c.latest_version
       /\ c.start_version = c.trained_till_version + 1
       /\ c.latest_version = SetMax(ListedVersions(bucket2))
            \/ c.latest_version < SetMax(ListedVersions(bucket2))
       /\ c.loaded \subseteq PendingRange
  /\ (LoadOver /\ faults = 0 /\ NeverRewritten) => c.loaded = PendingRange
  /\ TagSet => ParseTag(runs[c.run].tag) = c.latest_version
C11_RangeSelection ==
  /\ C11_NoOpWhenUpToDate
  /\ C11_RangeIsPending
  /\ (faults = 0 /\ WatermarkRead /\ chist.exit = "completed")
       => c.trained_till_version = chist.L

\* C12 as stated: whatever versions of the pending range cannot be read, the
\* run goes on to training with the merge of the others.
C12_UnreadableVersionsNeverAbort ==
  ~(cpc = "done" /\ c.exit = "no_training_data")

\* The frames merged are those of the versions in c.loaded, in version order.
MergedIsLoaded ==
  LET order == Ascending(c.loaded)
  IN  /\ Len(c.all_train_dfs) = Len(order)
      /\ Len(c.all_valid_dfs) = Len(order)
      /\ NeverRewritten =>
           \A k \in DOMAIN order :
             /\ c.all_train_dfs[k] = RowsOf(bucket2, VersionedTrain(order[k]))
             /\ c.all_valid_dfs[k] = RowsOf(bucket2, VersionedValid(order[k]))

\* C12: a version of the pending range that cannot be read is skipped: the run
\* goes on with the merge of the versions that could be read when there is
\* one, and ends with the ValueError of load_versioned_data, before any MLflow
\* run, when no version of the range could be read.
C12_SkipUnlessNothingReadable ==
  /\ LoadOver =>
       /\ MergedIsLoaded
       /\ (~c.load_raised /\ NeverRewritten)
            => c.loaded = {v \in PendingRange : Complete(bucket2, v)}
  /\ (cpc \in {"validate", "start_run", "train", "log_metrics", "set_tag",
               "log_model"})
       => c.loaded # {}
  /\ (cpc = "done" /\ c.exit = "no_training_data")
       => (c.loaded = {} /\ c.run = 0)
C12_Witness ==
  /\ cpc = "start_run"
  /\ c.loaded # {}
  /\ c.loaded # PendingRange
C12_WitnessNothingReadable ==
  /\ cpc = "done" /\ c.exit = "no_training_data"
  /\ c.start_version <= c.latest_version

\* C13: a run that sets the watermark to L has read and merged every version
\* of W+1..L.
C13_WatermarkCoversOnlyLoaded ==
  (RangeKnown /\ TagSet) => c.loaded = PendingRange

\* C14: a version adds its train rows exactly when it adds its valid rows: a
\* version of which one part cannot be read adds nothing to either, and the
\* merged versions are in increasing order in both merged sets.
C14_PairsLoadedTogether ==
  /\ Len(c.all_train_dfs) = Len(c.all_valid_dfs)
  /\ Len(c.all_train_dfs) = Cardinality(c.loaded)
  /\ \A v \in c.loaded : Complete(bucket2, v)
  /\ NeverRewritten =>
       LET order == Ascending(c.loaded)
       IN  \A k \in 1..Len(c.all_train_dfs) :
             /\ c.all_train_dfs[k] = bucket2[VersionedTrain(order[k])]
             /\ c.all_valid_dfs[k] = bucket2[VersionedValid(order[k])]
C14_Witness ==
  /\ cpc = "start_run"
  /\ \E v \in PendingRange :
       /\ VersionedTrain(v) \in DOMAIN bucket2
       /\ VersionedValid(v) \notin DOMAIN bucket2
       /\ v \notin c.loaded
  /\ c.loaded # {}

\* C15: a merged frame that is not 53 columns wide ends the run before
\* training: no run trained and evaluated a model, logged one or set the tag
\* on a frame of another width.
C15_WidthMismatchIsFatal ==
  (c.accuracy # NoMetric \/ TagSet \/ (c.run # 0 /\ runs[c.run].model))
    => c.shape1 = ExpectedColumns

\* C16: after a run that failed while determining the range, loading,
\* training, evaluating, logging or setting the tag, the next run obtains the
\* watermark and the model the failed run obtained.
FailedBeforeLogModel ==
  chist.exit \in {"no_training_data", "failed_start_run", "failed_train",
                  "failed_log_metric", "failed_set_tag"}
C16_FailedRunChangesNothing ==
  (WatermarkRead /\ ~c.read_raised /\ FailedBeforeLogModel /\ faults = 1)
    => (c.trained_till_version = chist.W /\ c.model = chist.model)

\* ------------------------------------------------- runs that interleave
\* C17: however the steps of a producer run (list versions, upload train of
\* vN, upload valid of vN) interleave with those of a consumer run, with no
\* call raising, the consumer merges only versions whose two parts are stored,
\* and never sets its tag to N or beyond without having merged version N.
C17_ProducerConsumerInterleave ==
  faults = 0 =>
    /\ \A v \in c.loaded : Complete(bucket2, v)
    /\ (RangeKnown /\ TagSet) =>
         \A N \in ListedVersions(bucket2) :
           (c.start_version <= N /\ N <= ParseTag(runs[c.run].tag))
             => N \in c.loaded

\* C18: with two producer runs whose steps interleave and no call raising, the
\* two runs never both end having uploaded both parts under the same version
\* number with every upload returning True.
Succeeded(i) == pub[i].pc = "done" /\ pub[i].train_ok /\ pub[i].valid_ok
C18_NoVersionNumberSharedByTwoRuns ==
  faults = 0 =>
    ~(/\ Succeeded(1)
      /\ Succeeded(2)
      /\ pub[1].new_version = pub[2].new_version)

\* ------------------------------------------------- the producer's sources
\* The producer run in progress is past its read of data.csv / of the collection.
PastDataCsv == ppc \notin {"idle", "read_valid", "delete_train", "delete_valid",
                           "read_data", "delete_data"}
PastMongo == PastDataCsv /\ ppc \notin {"mongo_find", "mongo_delete"}

\* C19: a run that read data.csv has deleted it, and a run that read the
\* documents has emptied the collection; a source that is absent gives an
\* empty frame and the run goes on with the rows of the other source.
C19_SourcesDestructivelyRead ==
  /\ (PastDataCsv /\ p.csv1.some) => DataCsv \notin DOMAIN bucket1
  /\ (PastMongo /\ p.csv2 # <<>>) => collection2 = <<>>
  /\ (ppc = "done" /\ ~pfault /\ ~p.csv1.some /\ p.csv2 # <<>>)
       => /\ p.exit # "no_data"
          /\ Range(p.csv2) \subseteq Range(p.final_train) \cup Range(p.final_valid)
  /\ (ppc = "done" /\ ~pfault /\ p.csv2 = <<>> /\ p.csv1.some)
       => /\ p.exit # "no_data"
          /\ Range(p.csv1.rows) \subseteq Range(p.final_train) \cup Range(p.final_valid)

\* C20: a read of data.csv that raises gives the run an empty frame and leaves
\* the blob in BUCKET_1; a find or delete_many that raises gives the run an
\* empty frame and leaves the documents in the collection; the run goes on to
\* its end with the rows of the other source.
C20_UnreachableSourceIsEmpty ==
  /\ p.blob_raised =>
       /\ ~p.csv1.some /\ p.csv1.rows = <<>>
       /\ DataCsv \in DOMAIN bucket1
  /\ p.mongo_raised =>
       /\ p.csv2 = <<>>
       /\ collection2 # <<>>
  /\ (ppc = "done" /\ p.blob_raised /\ p.csv2 # <<>>)
       => /\ p.exit \in {"versioned", "instream"}
          /\ Range(p.csv2) \subseteq Range(p.final_train) \cup Range(p.final_valid)
  /\ (ppc = "done" /\ p.mongo_raised /\ p.csv1.some)
       => /\ p.exit \in {"versioned", "instream"}
          /\ Range(p.csv1.rows) \subseteq Range(p.final_train) \cup Range(p.final_valid)
C20_Witness ==
  /\ ppc = "done"
  /\ p.blob_raised
  /\ p.csv2 # <<>>
  /\ DataCsv \in DOMAIN bucket1
C20_WitnessMongo ==
  /\ ppc = "done"
  /\ p.mongo_raised
  /\ p.csv1.some
  /\ collection2 # <<>>

\* ------------------------------------------------------- the transform
Returned == tr.calls >= 1 /\ tr.out.raised = ""

\* The ten hash slots of categorical column col in row r of the frame returned.
HashSlots(out, r, col) ==
  LET first == CHOOSE k \in DOMAIN out.columns : out.columns[k] = HashColumn(col, 0)
  IN  [i \in 1..HASH_FEATURES |-> out.rows[r][first + i - 1]]

\* The 53 columns in their order.
FixedColumns ==
  [i \in DOMAIN NUMERICAL_COLS |-> Column(NUMERICAL_COLS[i])]
    \o Flatten([k \in DOMAIN CATEGORICAL_COLS |->
                 [i \in 1..HASH_FEATURES |-> HashColumn(CATEGORICAL_COLS[k], i - 1)]])
    \o <<Column("price")>>

\* C21: preprocess_data raises exactly when the frame has no price column;
\* with price present it returns a frame whichever other fields are missing or
\* are not numbers, with 0 where a numeric value could not be coerced.
C21_RaisesOnlyWithoutTarget ==
  tr.calls >= 1 =>
    /\ (tr.out.raised # "") <=> ("price" \notin tr.df.columns)
    /\ tr.out.raised = "" =>
         \A r \in DOMAIN tr.out.rows, i \in DOMAIN NUMERICAL_COLS :
           tr.df.rows[r][NUMERICAL_COLS[i]].kind # "num"
             => tr.out.rows[r][i] = Num(0)

\* C23: every frame preprocess_data returns has the 53 columns in the fixed
\* order, and every row 53 cells, also when the input lacks a categorical field.
C23_WidthIs53 ==
  Returned =>
    /\ Len(tr.out.columns) = ExpectedColumns
    /\ tr.out.columns = FixedColumns
    /\ \A r \in DOMAIN tr.out.rows : Len(tr.out.rows[r]) = ExpectedColumns

\* C27: preprocess_data applied twice to the same records returns the same,
\* and what it returns for a record is what it returns for that record alone,
\* whichever other records are in the frame.
C27_Deterministic == tr.calls = 2 => tr.again = tr.out
C27_DeterministicAndPerRecord ==
  /\ C27_Deterministic
  /\ Returned =>
       \A r \in DOMAIN tr.documents :
         LET alone == preprocess_data(DataFrame(<<tr.documents[r]>>), tr.keeps_na)
         IN  alone.raised = ""
               => (alone.columns = tr.out.columns /\ alone.rows[1] = tr.out.rows[r])

\* C28: a record whose categorical value is missing gets, for that column, the
\* hash slots of the string "unknown".
C28_MissingHashesAsUnknown ==
  Returned =>
    \A r \in DOMAIN tr.out.rows, k \in DOMAIN CATEGORICAL_COLS :
      (/\ CATEGORICAL_COLS[k] \in tr.df.columns
       /\ tr.df.rows[r][CATEGORICAL_COLS[k]] = NaN)
        => HashSlots(tr.out, r, CATEGORICAL_COLS[k]) = FeatureHasher("unknown")

\* ------------------------------------------------ the producer, continued
\* The rows the stores hold.
DurableRows ==
  StoredRows(bucket1) \cup StoredRows(bucket2)
    \cup {collection2[i].row : i \in DOMAIN collection2}

\* The rows the run in progress has read.
RowsRead ==
  Range(p.train1.rows) \cup Range(p.valid1.rows)
    \cup Range(p.csv1.rows) \cup Range(p.csv2)

\* C22: a run that ends on the missing target has published no version and
\* written no buffer, and every row it found in the buffer and in the two
\* sources is still in a store.
C22_AbortLosesNoRow ==
  (ppc = "done" /\ p.exit = "missing_target" /\ ~pfault)
    => /\ Versioned(bucket2) = Versioned(pstart)
       /\ InstreamTrain \notin DOMAIN bucket2
       /\ InstreamValid \notin DOMAIN bucket2
       /\ RowsRead \subseteq DurableRows

\* C24: with BATCH_SIZE 10 and no call raising, the run that takes the 12 rows
\* leaves 9 train and 3 valid rows in the instream buffer and no version; the
\* run that finds this buffer and takes the 5 rows publishes v1 with the 13
\* train and 4 valid rows of both runs and leaves no instream buffer.
AllRows == 1 .. (ScenarioDeliveries[1] + ScenarioDeliveries[2])
C24_EndToEnd ==
  (faults = 0 /\ ppc = "done" /\ p.exit # "no_data") =>
    /\ Len(p.csv1.rows \o p.csv2) = 12 =>
         /\ p.exit = "instream"
         /\ Len(RowsOf(bucket2, InstreamTrain)) = 9
         /\ Len(RowsOf(bucket2, InstreamValid)) = 3
         /\ DOMAIN Versioned(bucket2) = {}
    /\ (Len(p.csv1.rows \o p.csv2) = 5
          /\ Len(RowsOf(pstart, InstreamTrain)) = 9) =>
         /\ p.exit = "versioned"
         /\ p.new_version = 1
         /\ Len(RowsOf(bucket2, VersionedTrain(1))) = 13
         /\ Len(RowsOf(bucket2, VersionedValid(1))) = 4
         /\ Range(RowsOf(bucket2, VersionedTrain(1)))
              \cup Range(RowsOf(bucket2, VersionedValid(1))) = AllRows
         /\ InstreamTrain \notin DOMAIN bucket2
         /\ InstreamValid \notin DOMAIN bucket2
C24_Witness ==
  /\ faults = 0 /\ ppc = "done" /\ p.exit = "versioned"
  /\ Len(p.csv1.rows \o p.csv2) = 5
  /\ Len(RowsOf(pstart, InstreamTrain)) = 9
  /\ Len(RowsOf(bucket2, VersionedTrain(1))) = 13

\* C25: the frames a run goes on with are the buffer's train rows followed by
\* train rows of this run's sources, and the buffer's valid rows followed by
\* valid rows of this run's sources, in the buffer's order; no row of the
\* buffer changes sides. The buffer is the one the run read, which in a run
\* where no call raised is the buffer stored when the run started.
Merged == p.final_train # <<>> \/ p.final_valid # <<>>
After(final, buffer) == SubSeq(final, Len(buffer) + 1, Len(final))
C25_BufferThenNewRows ==
  Merged =>
    LET merged_df == p.csv1.rows \o p.csv2
    IN  /\ SubSeq(p.final_train, 1, Len(p.train1.rows)) = p.train1.rows
        /\ SubSeq(p.final_valid, 1, Len(p.valid1.rows)) = p.valid1.rows
        /\ Range(After(p.final_train, p.train1.rows)) \subseteq Range(merged_df)
        /\ Range(After(p.final_valid, p.valid1.rows)) \subseteq Range(merged_df)
        /\ Len(p.final_train) + Len(p.final_valid)
             = Len(p.train1.rows) + Len(p.valid1.rows) + Len(merged_df)
        /\ ~pfault => /\ p.train1.rows = RowsOf(pstart, InstreamTrain)
                      /\ p.valid1.rows = RowsOf(pstart, InstreamValid)
C25_Witness ==
  /\ Merged /\ ~pfault
  /\ RowsOf(pstart, InstreamTrain) # <<>>
  /\ RowsOf(pstart, InstreamValid) # <<>>
  /\ After(p.final_train, p.train1.rows) # <<>>
  /\ After(p.final_valid, p.valid1.rows) # <<>>

\* C26: the rows a run adds to the train side and to the valid side are
\* determined by the sequence of rows it took from the two sources: the rows
\* at the first floor(0.8 n) positions of the seed-42 permutation and the rows
\* at the remaining positions, whatever the buffer, the versions and the runs
\* before it.
SplitOf(rows) ==
  LET n == Len(rows)
      k == (n * SplitTenths) \div 10
  IN  [train |-> [i \in 1..k |-> rows[Perm42(n)[i] + 1]],
       valid |-> [i \in 1..(n - k) |-> rows[Perm42(n)[k + i] + 1]]]
C26_SplitDependsOnInputOnly ==
  Merged =>
    LET split == SplitOf(p.csv1.rows \o p.csv2)
    IN  /\ After(p.final_train, p.train1.rows) = split.train
        /\ After(p.final_valid, p.valid1.rows) = split.valid
C26_Witness ==
  /\ Merged
  /\ Len(p.csv1.rows \o p.csv2) >= 3
  /\ p.train1.rows # <<>>
  /\ DOMAIN Versioned(bucket2) # {}
  /\ Shuffle(p.csv1.rows \o p.csv2) # p.csv1.rows \o p.csv2

\* C29: no step of a consumer run changes a blob of BUCKET_2, instream or
\* versioned, nor data.csv, nor collection_2.
C29_ConsumerLeavesStoreAlone ==
  [][Consumer => UNCHANGED <<bucket1, bucket2, collection2>>]_vars
C29_Witness ==
  /\ cpc = "done" /\ c.exit = "completed"
  /\ c.loaded # {}
  /\ \A v \in c.loaded : Complete(bucket2, v)

\* C30: no row is stored twice in BUCKET_2, in one blob or in two, whichever
\* delete raised.
Blobs == DOMAIN bucket2
C30_NoRowStoredTwice ==
  \A b1 \in Blobs, b2 \in Blobs :
    \A i \in DOMAIN bucket2[b1], j \in DOMAIN bucket2[b2] :
      bucket2[b1][i] = bucket2[b2][j] => (b1 = b2 /\ i = j)

\* ------------------------------------------------------------- the split
\* C31: for n rows and a fraction of h hundredths the train partition has
\* floor(n*h/100) rows and the valid partition the other n - floor(n*h/100);
\* no row is in both and every row is in one of them, once.
NoRowTwice(df) == \A i \in DOMAIN df, j \in DOMAIN df : df[i] = df[j] => i = j
C31_SplitSizes ==
  sp.done =>
    LET n == Len(sp.df)
        k == (n * sp.TRAIN_TEST_SPLIT) \div 100
    IN  /\ Len(sp.new_train_df) = k
        /\ Len(sp.new_valid_df) = n - k
        /\ Range(sp.new_train_df) \cap Range(sp.new_valid_df) = {}
        /\ Range(sp.new_train_df) \cup Range(sp.new_valid_df) = Range(sp.df)
        /\ NoRowTwice(sp.new_train_df \o sp.new_valid_df)

\* ------------------------------------------------------------- dbapp
\* C36: collection_2 never holds two documents with the same non-price
\* fields, whichever way the find_one and insert_one calls of two requests
\* interleave.
C36_NoTwoDocumentsWithSameFields ==
  \A i \in DOMAIN collection2, j \in DOMAIN collection2 :
    collection2[i].query = collection2[j].query => i = j

C32_WitnessNoTag ==
  /\ wm.calls = 1
  /\ wm.rs # <<>>
  /\ wm.rs[1].tag = NoTag
  /\ wm.read.trained_till_version = 0

C34_NoDocumentDeletedUnread ==
  [][(MongoDelete /\ faults = 0) =>
       \A i \in DOMAIN collection2 :
         \/ collection2[i] \in Range(collection2')
         \/ collection2[i].row \in Range(p'.csv2)]_vars

\* --------------------------------------------- training and serving
\* C35: for a raw record that has a price, the 52 features mlapp computes are
\* the first 52 cells of the row preprocess_data returns for the record, also
\* when the record lacks a numerical or a categorical field or has a missing
\* categorical value.
NumFeatures == ExpectedColumns - 1
C35_ServingEqualsTraining ==
  (/\ tr.calls >= 1
   /\ tr.predicted
   /\ Len(tr.documents) = 1
   /\ "price" \in DOMAIN tr.documents[1])
    => /\ tr.out.raised = ""
       /\ Len(tr.out.rows[1]) = NumFeatures + 1
       /\ SubSeq(tr.out.rows[1], 1, NumFeatures) = tr.features

====
